---- MODULE Spec2Model ----
(***************************************************************************)
(* Model of pkg/workers/sharings/share_data.go: the worker that replays a  *)
(* local change (create, update, patch, delete, reference change) of a     *)
(* shared document, file or directory at every recipient of a sharing.     *)
(*                                                                         *)
(* One invocation of a top-level operation is a run of the state machine   *)
(*   idle --Start<Op>--> loop --<Op>Step (once per recipient)--> loop      *)
(*        --Return<Op>--> done                                             *)
(* The code is sequential: a step is one iteration of the operation's      *)
(* `for _, recipient := range opts.Recipients` loop, with every call the   *)
(* iteration makes (a nested SendFile included).                           *)
(***************************************************************************)
EXTENDS Integers, Sequences, FiniteSets, TLC

\* Largest number of recipients of a sharing explored by the model checker.
MaxRecipients == 2

\* Longest list of references given to the reference helpers.
MaxRefs == 2

\* ------------------------------------------------------------------------
\* Constants of pkg/consts used by the worker
\* ------------------------------------------------------------------------
RootDirID == "io.cozy.files.root-dir"
SharedWithMeDirID == "io.cozy.files.shared-with-me-dir"
SelectorReferencedBy == "referenced_by"
NoSelector == ""

\* The Go zero value of SendOptions.DocRev: no revision.
NoRev == [at |-> 0]
\* The revision the object currently has at recipient r.
RevAt(r) == [at |-> r]
\* The revision of the local copy (what couchdb.GetDoc returns as _rev).
LocalRev == [at |-> -1]

\* ------------------------------------------------------------------------
\* Input domains
\* ------------------------------------------------------------------------
FileID == "file-1"
DirID == "dir-1"
ParentDirID == "parent-1"

Hashes == {"h1", "h2"}
Names == {"n1", "n2"}
LocalTags == <<"a", "b">>
TagLists == {<<"a", "b">>, <<"a">>}

RefA == [Type |-> "album", ID |-> "A"]
RefB == [Type |-> "album", ID |-> "B"]
LocalRefLists == {<<RefA>>, <<RefA, RefB>>}
RemoteRefLists == {<<>>, <<RefA>>, <<RefB>>}

\* opts.Values, each value already cut at permissions.RefSep ("/"): a value
\* "album/A" is <<"album","A">>, a bare id is a one-element sequence.
RefValues == <<<<"album", "A">>, <<"album", "B">>, <<"malformed">>>>

\* The snapshot a recipient that does not answer with an object yields.
NoDoc == [k \in {} |-> [v |-> ""]]
NoSnap(st) ==
    [status |-> st, md5 |-> "", name |-> "", tags |-> <<>>, refs |-> <<>>,
     M |-> NoDoc]

\* The remote references are read only under the "referenced_by" selector
\* (extractRelevantReferences), so they vary with that selector.
FileSnaps(selector) ==
    {NoSnap("absent"), NoSnap("error")} \cup
    [status : {"present"}, md5 : Hashes, name : Names, tags : TagLists,
     refs : IF selector = SelectorReferencedBy THEN RemoteRefLists
            ELSE {<<>>},
     M : {NoDoc}]

\* JSON documents: maps from keys to values.
DocBodies ==
    {[k \in {"title"} |-> "t1"], [k \in {"title"} |-> "t2"],
     [k \in {"title", "extra"} |-> "t1"]}

WithIDRev(body, id, rev) ==
    [k \in DOMAIN body \cup {"_id", "_rev"} |->
        IF k = "_id" THEN [id |-> id]
        ELSE IF k = "_rev" THEN rev
        ELSE [v |-> body[k]]]

DocID == "doc-1"

DocSnaps(r) ==
    {NoSnap("absent"), NoSnap("error")} \cup
    {[status |-> "present", md5 |-> "", name |-> "", tags |-> <<>>,
      refs |-> <<>>, M |-> WithIDRev(b, DocID, RevAt(r))] : b \in DocBodies}

\* The documents couchdb.GetDoc can return for the local copy.
LocalDocs == {WithIDRev(b, DocID, LocalRev) : b \in DocBodies}

\* Snapshots of which only the revision is read (delete, directory patch).
RevSnaps ==
    {NoSnap("absent"), NoSnap("error"),
     [status |-> "present", md5 |-> "h1", name |-> "n1", tags |-> <<"a">>,
      refs |-> <<>>, M |-> NoDoc]}

RecipientLists == {[i \in 1..n |-> i] : n \in 0..MaxRecipients}

Range(s) == {s[i] : i \in DOMAIN s}

VARIABLES
    op,         \* the top-level operation invoked
    pc,         \* "idle", "loop" or "done"
    idx,        \* index in opts.Recipients of the next loop iteration
    opts,       \* SendOptions: DocID, Recipients, DocRev, Selector, Values
    fileOpts,   \* opts.fileOpts (set = FALSE stands for nil or unset)
    fileDoc,    \* the local vfs.FileDoc / vfs.DirDoc
    doc,        \* the local couchdb.JSONDoc (doc.M)
    remote,     \* what each recipient answers to the snapshot fetch
    log,        \* requests issued through request.Req, in order
    processed,  \* recipients whose loop iteration ran
    action,     \* per recipient, what its own iteration did
    errFinal,   \* recipients with an entry in the multierror, in order
    ret,        \* the value returned by the operation
    opens,      \* successful fs.OpenFile calls
    closes,     \* calls of content.Close()
    mm,         \* master-master topology (see SpecMM)
    call        \* one call of a pure helper (see SpecHelpers)

vars == <<op, pc, idx, opts, fileOpts, fileDoc, doc, remote, log, processed,
          action, errFinal, ret, opens, closes, mm, call>>

\* ------------------------------------------------------------------------
\* Pure helpers of share_data.go
\* ------------------------------------------------------------------------

\* getSharedReferences: with the "referenced_by" selector the values are of
\* the form "doctype/id"; a value that does not split in two parts is
\* skipped.  With any other selector opts.sharedRefs stays nil.
getSharedReferences(o) ==
    IF o.Selector = SelectorReferencedBy
    THEN LET wellFormed == SelectSeq(o.Values, LAMBDA parts : Len(parts) = 2)
         IN  [i \in DOMAIN wellFormed |->
                [Type |-> wellFormed[i][1], ID |-> wellFormed[i][2]]]
    ELSE <<>>

\* An extractRelevantReferences that also compares the types.
extractRelevantReferences_WithType(o, refs) ==
    LET sharedRefs == getSharedReferences(o)
    IN  SelectSeq(refs, LAMBDA ref :
            \E i \in DOMAIN sharedRefs :
                ref.ID = sharedRefs[i].ID /\ ref.Type = sharedRefs[i].Type)

\* extractRelevantReferences: the references whose ID is the ID of some
\* shared reference, in the order of refs.
extractRelevantReferences(o, refs) ==
    LET sharedRefs == getSharedReferences(o)
    IN  SelectSeq(refs, LAMBDA ref :
            \E i \in DOMAIN sharedRefs : ref.ID = sharedRefs[i].ID)

\* findMissingRefs: the local references with no (ID, Type)-equal remote one.
findMissingRefs(lref, rref) ==
    SelectSeq(lref, LAMBDA lr :
        ~ \E i \in DOMAIN rref : rref[i].ID = lr.ID /\ rref[i].Type = lr.Type)

\* A findNewRefs without the comparison of the lengths.
findNewRefs_NoCountCheck(o, newFileDoc, remoteFileDoc) ==
    findMissingRefs(extractRelevantReferences(o, newFileDoc.refs),
                    extractRelevantReferences(o, remoteFileDoc.refs))

\* findNewRefs: nil (the empty sequence) unless the local file has more
\* relevant references than the remote one.
findNewRefs(o, newFileDoc, remoteFileDoc) ==
    LET refs == extractRelevantReferences(o, newFileDoc.refs)
        remoteRefs == extractRelevantReferences(o, remoteFileDoc.refs)
    IN  IF Len(refs) > Len(remoteRefs)
        THEN findMissingRefs(refs, remoteRefs)
        ELSE <<>>

\* A fileHasChanges that forgets the tags.
fileHasChanges_NameOnly(newFileDoc, remoteFileDoc) ==
    newFileDoc.name # remoteFileDoc.name

\* A fileHasChanges that reports a change for every pair of files.
fileHasChanges_Always(newFileDoc, remoteFileDoc) ==
    newFileDoc = newFileDoc /\ remoteFileDoc = remoteFileDoc

\* fileHasChanges: name or tags (reflect.DeepEqual of the slices) differ.
fileHasChanges(newFileDoc, remoteFileDoc) ==
    \/ newFileDoc.name # remoteFileDoc.name
    \/ newFileDoc.tags # remoteFileDoc.tags

\* delete(m, "_id"); delete(m, "_rev")
WithoutIDRev(m) == [k \in DOMAIN m \ {"_id", "_rev"} |-> m[k]]

\* A docHasChanges that compares the maps with their _id and _rev.
docHasChanges_WithRev(newDoc, remoteDoc) ==
    newDoc # remoteDoc

\* docHasChanges: the two maps differ once _id and _rev are removed.
docHasChanges(newDoc, remoteDoc) ==
    WithoutIDRev(newDoc) # WithoutIDRev(remoteDoc)

\* doc.SetRev(rev)
SetRev(m, rev) == [k \in DOMAIN m \cup {"_rev"} |-> IF k = "_rev" THEN rev ELSE m[k]]

\* An isShared that does not look at the accepted ids.
isShared_IgnoreList(id, acceptedIDs) ==
    id # RootDirID /\ acceptedIDs = acceptedIDs

\* isShared
isShared(id, acceptedIDs) ==
    /\ id # RootDirID
    /\ \E i \in DOMAIN acceptedIDs : acceptedIDs[i] = <<id>>

\* getParentDirID: [err, parentID]
getParentDirID(o, dirID) ==
    IF o.Selector = NoSelector
    THEN IF o.DocID = RootDirID
         THEN [err |-> TRUE, parentID |-> ""]
         ELSE IF isShared(o.DocID, o.Values)
              THEN [err |-> FALSE, parentID |-> SharedWithMeDirID]
              ELSE [err |-> FALSE, parentID |-> dirID]
    ELSE [err |-> FALSE, parentID |-> SharedWithMeDirID]

\* ------------------------------------------------------------------------
\* Requests
\* ------------------------------------------------------------------------

\* One call of request.Req: the recipient, the method, the route, the values
\* of the "rev" and "dir_id" query parameters, the body, whether the body is
\* a content stream that is already closed, and whether the call succeeded.
Req(to, method, path, revs, dirIDs, body, closed, ok) ==
    [to |-> to, method |-> method, path |-> path, revs |-> revs,
     dirIDs |-> dirIDs, body |-> body, closed |-> closed, ok |-> ok]

NoBody == [none |-> TRUE]

\* The GET of getDirOrFileMetadataAtRecipient / getDocAtRecipient.
FetchReq(r, path, snap) ==
    Req(r, "GET", path, <<>>, <<>>, NoBody, FALSE, snap.status = "present")

\* ------------------------------------------------------------------------
\* The lazily opened content stream
\* ------------------------------------------------------------------------

\* set, the rev and dir_id values of queries, whether content was closed and
\* whether content was read past its start.
NoFileOpts ==
    [set |-> FALSE, revs |-> <<>>, dirIDs |-> <<>>, closed |-> FALSE,
     read |-> FALSE]

\* A fillDetailsAndOpenFile without the `set` guard: every call opens.
fillDetailsAndOpenFile_NoGuard(fo, openOK) ==
    IF openOK
    THEN [fo |-> [set |-> TRUE, revs |-> <<>>, dirIDs |-> <<>>,
                  closed |-> FALSE, read |-> FALSE],
          err |-> FALSE, opened |-> TRUE]
    ELSE [fo |-> fo, err |-> TRUE, opened |-> FALSE]

\* fillDetailsAndOpenFile: returns at once when the options are set; else
\* opens the file and, when that succeeds, installs fresh options.
\* Result: the options, whether an error is returned, whether a file was
\* opened.
fillDetailsAndOpenFile(fo, openOK) ==
    IF fo.set
    THEN [fo |-> fo, err |-> FALSE, opened |-> FALSE]
    ELSE IF openOK
         THEN [fo |-> [set |-> TRUE, revs |-> <<>>, dirIDs |-> <<>>,
                       closed |-> FALSE, read |-> FALSE],
               err |-> FALSE, opened |-> TRUE]
         ELSE [fo |-> fo, err |-> TRUE, opened |-> FALSE]

\* A closeFile that closes whether or not the options are set.
closeFile_NoGuard(fo) ==
    [fo |-> [fo EXCEPT !.closed = TRUE], n |-> 1]

\* closeFile: closes the content when the options are set.
\* Result: the options and the number of Close() calls made (0 or 1).
closeFile(fo) ==
    IF fo.set
    THEN [fo |-> [fo EXCEPT !.closed = TRUE], n |-> 1]
    ELSE [fo |-> fo, n |-> 0]

\* What a request whose Body is the content stream transmits: the whole
\* content when the stream is at its start, else what is left of it.
ContentBody(fo) == [content |-> IF fo.read THEN "rest" ELSE "whole"]

\* The content stream after a request sent it as its Body: a request that
\* succeeded has read the stream to its end; a request that failed is taken
\* to have left it where it was.  Nothing moves the stream back.
ReadBody(fo, ok) == [fo EXCEPT !.read = @ \/ ok]

\* sendFileToRecipient: adds opts.DocRev to the shared queries when it is
\* not empty, then sends the content with all the queries.
\* Result: the options and the requests issued (none when the options are
\* not set).
sendFileToRecipient(fo, docRev, r, method, ok) ==
    IF ~ fo.set
    THEN [fo |-> fo, reqs |-> <<>>]
    ELSE LET revs == IF docRev # NoRev THEN Append(fo.revs, docRev)
                     ELSE fo.revs
             fo2 == [fo EXCEPT !.revs = revs]
         IN  [fo |-> ReadBody(fo2, ok),
              reqs |-> <<Req(r, method, "/sharings/doc", revs, fo2.dirIDs,
                             ContentBody(fo2), fo2.closed, ok)>>]

\* generateDirOrFilePatch: the attributes of the JSON:API patch document.
generateDirOrFilePatch(d) ==
    [name |-> d.name, dirID |-> d.dirID, tags |-> d.tags]

\* sendPatchToRecipient: resolves the parent directory, then sends the PATCH
\* with opts.DocRev.  Result: whether an error is returned, the requests.
sendPatchToRecipient(patch, o, r, dirID, ok) ==
    LET parent == getParentDirID(o, dirID)
    IN  IF parent.err
        THEN [err |-> TRUE, reqs |-> <<>>]
        ELSE [err |-> ~ ok,
              reqs |-> <<Req(r, "PATCH", "/sharings/doc", <<o.DocRev>>,
                             <<parent.parentID>>, [patch |-> patch],
                             FALSE, ok)>>]

\* updateReferencesAtRecipient: POST adds references through the files
\* route, DELETE removes them through the sharing route.
updateReferencesAtRecipient(method, refs, o, r, ok) ==
    [err |-> ~ ok,
     reqs |-> <<Req(r, method,
                    IF method = "POST" THEN "/files/referenced_by"
                    ELSE "/sharings/files/referenced_by",
                    <<>>, <<>>, [refs |-> refs], FALSE, ok)>>]

\* sendDocToRecipient
sendDocToRecipient(r, m, method, ok) ==
    [err |-> ~ ok,
     reqs |-> <<Req(r, method, "/sharings/doc", <<>>, <<>>, [doc |-> m],
                    FALSE, ok)>>]

\* A SendFile loop that returns at the first POST that fails.
RECURSIVE SendFileLoop_StopOnError(_, _, _, _, _)
SendFileLoop_StopOnError(fo, docRev, recipients, k, okSet) ==
    IF k > Len(recipients)
    THEN [fo |-> fo, reqs |-> <<>>]
    ELSE LET one == sendFileToRecipient(fo, docRev, recipients[k], "POST",
                                        recipients[k] \in okSet)
             rest == IF recipients[k] \in okSet
                     THEN SendFileLoop_StopOnError(one.fo, docRev, recipients,
                                                   k + 1, okSet)
                     ELSE [fo |-> one.fo, reqs |-> <<>>]
         IN  [fo |-> rest.fo, reqs |-> one.reqs \o rest.reqs]

\* The loop of SendFile over all the recipients of the options.
RECURSIVE SendFileLoop(_, _, _, _, _)
SendFileLoop(fo, docRev, recipients, k, okSet) ==
    IF k > Len(recipients)
    THEN [fo |-> fo, reqs |-> <<>>]
    ELSE LET one == sendFileToRecipient(fo, docRev, recipients[k], "POST",
                                        recipients[k] \in okSet)
             rest == SendFileLoop(one.fo, docRev, recipients, k + 1, okSet)
         IN  [fo |-> rest.fo, reqs |-> one.reqs \o rest.reqs]

\* SendFile: opens the content (unless already set), adds the destination
\* directory to the queries, POSTs the file to every recipient of the
\* options and, on return, closes the content (defer opts.closeFile()).
\* okSet: the recipients whose POST succeeds.
SendFile(fo, o, openOK, okSet) ==
    LET fill == fillDetailsAndOpenFile(fo, openOK)
    IN  IF fill.err
        THEN [fo |-> fill.fo, reqs |-> <<>>, err |-> TRUE, opened |-> FALSE,
              closes |-> 0]
        ELSE LET fo1 == [fill.fo EXCEPT
                           !.dirIDs = Append(@, SharedWithMeDirID)]
                 loop == SendFileLoop(fo1, o.DocRev, o.Recipients, 1, okSet)
                 cl == closeFile(loop.fo)
             IN  [fo |-> cl.fo, reqs |-> loop.reqs, err |-> FALSE,
                  opened |-> fill.opened, closes |-> cl.n]

\* One iteration of the loop of UpdateOrPatchFile, for recipient r whose
\* snapshot fetch yields snap.  openOK: whether fs.OpenFile succeeds if it is
\* called; okSet: the recipients whose POST succeeds if SendFile is called;
\* ok: whether the PUT, PATCH or reference update succeeds.
UpdateOrPatchFileIter(o, fo, fd, r, snap, openOK, okSet, ok) ==
    LET get == FetchReq(r, "/files", snap)
        o1 == [o EXCEPT !.DocRev = RevAt(r)]
    IN  IF snap.status = "error"
        THEN [o |-> o, fo |-> fo, reqs |-> <<get>>, action |-> "fetcherr",
              opened |-> FALSE, closes |-> 0]
        ELSE IF snap.status = "absent"
        THEN LET sf == SendFile(fo, o, openOK, okSet)
             IN  [o |-> o, fo |-> sf.fo, reqs |-> <<get>> \o sf.reqs,
                  action |-> IF sf.err THEN "openerr" ELSE "create",
                  opened |-> sf.opened, closes |-> sf.closes]
        ELSE IF fd.md5 = snap.md5
        THEN IF ~ fileHasChanges(fd, snap)
             THEN LET refs == IF o1.Selector = SelectorReferencedBy
                              THEN findNewRefs(o1, fd, snap) ELSE <<>>
                  IN  IF refs # <<>>
                      THEN [o |-> o1, fo |-> fo,
                            reqs |-> <<get>> \o
                              updateReferencesAtRecipient("POST", refs, o1,
                                                          r, ok).reqs,
                            action |-> "refs", opened |-> FALSE, closes |-> 0]
                      ELSE [o |-> o1, fo |-> fo, reqs |-> <<get>>,
                            action |-> "noop", opened |-> FALSE, closes |-> 0]
             ELSE [o |-> o1, fo |-> fo,
                   reqs |-> <<get>> \o
                     sendPatchToRecipient(generateDirOrFilePatch(fd), o1, r,
                                          fd.dirID, ok).reqs,
                   action |-> "patch", opened |-> FALSE, closes |-> 0]
        ELSE LET fill == fillDetailsAndOpenFile(fo, openOK)
             IN  IF fill.err
                 THEN [o |-> o1, fo |-> fill.fo, reqs |-> <<get>>,
                       action |-> "openerr", opened |-> FALSE, closes |-> 0]
                 ELSE LET put == sendFileToRecipient(fill.fo, o1.DocRev, r,
                                                     "PUT", ok)
                      IN  [o |-> o1, fo |-> put.fo, reqs |-> <<get>> \o put.reqs,
                           action |-> "put", opened |-> fill.opened,
                           closes |-> 0]

\* ------------------------------------------------------------------------
\* State machine of one invocation
\* ------------------------------------------------------------------------

NoFile == [md5 |-> "", name |-> "", tags |-> <<>>, refs |-> <<>>, dirID |-> ""]
NoOpts ==
    [DocID |-> "", Recipients |-> <<>>, DocRev |-> NoRev,
     Selector |-> NoSelector, Values |-> <<>>]
NoRet == [kind |-> "none", about |-> <<>>]
RetNil == [kind |-> "nil", about |-> <<>>]
RetErr(rs) == [kind |-> "err", about |-> rs]
\* The multierror built by multierror.Append: nil when nothing was appended.
RetMulti(rs) == IF rs = <<>> THEN RetNil ELSE [kind |-> "multi", about |-> rs]

\* The sharing scopes: by reference, or a plain listing of accepted ids.
Scopes(id) ==
    {[Selector |-> SelectorReferencedBy, Values |-> RefValues],
     [Selector |-> NoSelector, Values |-> <<>>],
     [Selector |-> NoSelector, Values |-> <<<<id>>>>]}

\* The local file.  Its references are read only under the "referenced_by"
\* selector (extractRelevantReferences), so they vary with that selector.
LocalFiles(selector) ==
    [md5 : {"h1"}, name : {"n1"}, tags : {LocalTags},
     refs : IF selector = SelectorReferencedBy THEN LocalRefLists
            ELSE {<<RefA>>},
     dirID : {ParentDirID}]

LocalDirs ==
    [md5 : {""}, name : {"n1"}, tags : {LocalTags}, refs : {<<>>},
     dirID : {ParentDirID}]

\* ------------------------------------------------------------------------
\* Master-master topology: two nodes hold the file and each is a sharer
\* toward the other
\* ------------------------------------------------------------------------
Nodes == {"A", "B"}
Other(n) == IF n = "A" THEN "B" ELSE "A"

RefZ == [Type |-> "album", ID |-> "Z"]

MMFiles ==
    [md5 : Hashes, name : Names, tags : TagLists, refs : {<<>>, <<RefA>>},
     dirID : {ParentDirID}]

MMScopes ==
    {[Selector |-> SelectorReferencedBy, Values |-> RefValues],
     [Selector |-> NoSelector, Values |-> <<<<FileID>>>>]}

\* No topology: the state of mm while a single invocation is explored.
MMIdle ==
    [file |-> [n \in Nodes |-> NoFile], queue |-> <<>>,
     scope |-> [Selector |-> NoSelector, Values |-> <<>>],
     changed |-> FALSE, sent |-> FALSE]

InitDispatcher ==
    /\ op = "none"
    /\ pc = "idle"
    /\ idx = 1
    /\ opts = NoOpts
    /\ fileOpts = NoFileOpts
    /\ fileDoc = NoFile
    /\ doc = NoDoc
    /\ remote = <<>>
    /\ log = <<>>
    /\ processed = {}
    /\ action = <<>>
    /\ errFinal = <<>>
    /\ ret = NoRet
    /\ opens = 0
    /\ closes = 0

\* No helper call: the state of call outside SpecHelpers.
NoCall ==
    [fn |-> "none", o |-> NoOpts, dirID |-> "", refs |-> <<>>,
     remoteRefs |-> <<>>, done |-> FALSE, out |-> <<>>]

Init ==
    /\ InitDispatcher
    /\ mm = MMIdle
    /\ call = NoCall

\* Entering an operation whose loop is then run step by step.
Enter(name, o, fd, m, rem) ==
    /\ pc = "idle"
    /\ op' = name
    /\ pc' = "loop"
    /\ opts' = o
    /\ fileDoc' = fd
    /\ doc' = m
    /\ remote' = rem
    /\ action' = [r \in DOMAIN o.Recipients |-> "none"]
    /\ UNCHANGED <<idx, fileOpts, log, processed, errFinal, ret, opens,
                   closes, mm, call>>

\* UpdateOrPatchFile is called with the local file and fresh options.
StartUpdateOrPatchFile ==
    /\ pc = "idle"
    /\ \E recs \in RecipientLists, sc \in Scopes(FileID) :
      \E fd \in LocalFiles(sc.Selector), rem \in [DOMAIN recs -> FileSnaps(sc.Selector)] :
        Enter("UpdateOrPatchFile",
              [NoOpts EXCEPT !.DocID = FileID, !.Recipients = recs,
                             !.Selector = sc.Selector, !.Values = sc.Values],
              fd, NoDoc, rem)

UpdateOrPatchFileStep ==
    /\ pc = "loop"
    /\ op = "UpdateOrPatchFile"
    /\ idx <= Len(opts.Recipients)
    /\ LET r == opts.Recipients[idx]
           snap == remote[r]
       IN  \E openOK \in IF fileOpts.set \/ snap.status = "error" THEN {TRUE}
                         ELSE BOOLEAN,
              okSet \in IF snap.status = "absent"
                        THEN SUBSET Range(opts.Recipients) ELSE {{}},
              ok \in IF snap.status = "present" THEN BOOLEAN ELSE {TRUE} :
             \E it \in {UpdateOrPatchFileIter(opts, fileOpts, fileDoc, r, snap,
                                               openOK, okSet, ok)} :
                 /\ opts' = it.o
                 /\ fileOpts' = it.fo
                 /\ log' = log \o it.reqs
                 /\ action' = [action EXCEPT ![r] = it.action]
                 /\ opens' = opens + (IF it.opened THEN 1 ELSE 0)
                 /\ closes' = closes + it.closes
                 /\ processed' = processed \cup {r}
                 /\ idx' = idx + 1
    /\ UNCHANGED <<op, pc, fileDoc, doc, remote, errFinal, ret, mm, call>>

\* The end of the loop: the deferred closeFile runs and nil is returned.
ReturnUpdateOrPatchFile ==
    /\ pc = "loop"
    /\ op = "UpdateOrPatchFile"
    /\ idx > Len(opts.Recipients)
    /\ LET cl == closeFile(fileOpts)
       IN  /\ fileOpts' = cl.fo
           /\ closes' = closes + cl.n
    /\ ret' = RetNil
    /\ pc' = "done"
    /\ UNCHANGED <<op, idx, opts, fileDoc, doc, remote, log, processed,
                   action, errFinal, opens, mm, call>>

\* SendFile as a top-level operation (from SendData), in one step.
CallSendFile ==
    /\ pc = "idle"
    /\ \E recs \in RecipientLists, sc \in Scopes(FileID), openOK \in BOOLEAN :
        \E fd \in LocalFiles(sc.Selector),
           okSet \in IF openOK THEN SUBSET Range(recs) ELSE {{}} :
          \E o \in {[NoOpts EXCEPT !.DocID = FileID, !.Recipients = recs,
                                    !.Selector = sc.Selector,
                                    !.Values = sc.Values]} :
           \E sf \in {SendFile(NoFileOpts, o, openOK, okSet)} :
              /\ op' = "SendFile"
              /\ opts' = o
              /\ fileDoc' = fd
              /\ fileOpts' = sf.fo
              /\ log' = sf.reqs
              /\ opens' = opens + (IF sf.opened THEN 1 ELSE 0)
              /\ closes' = closes + sf.closes
              /\ processed' = IF sf.err THEN {} ELSE Range(recs)
              /\ action' = [r \in DOMAIN recs |->
                              IF sf.err THEN "none" ELSE "create"]
              /\ ret' = IF sf.err THEN RetErr(<<>>) ELSE RetNil
              /\ idx' = IF sf.err THEN 1 ELSE Len(recs) + 1
              /\ remote' = [r \in DOMAIN recs |-> NoSnap("absent")]
    /\ pc' = "done"
    /\ UNCHANGED <<doc, errFinal, mm, call>>

\* The guard of one loop iteration of operation name.
InLoop(name) ==
    /\ pc = "loop"
    /\ op = name
    /\ idx <= Len(opts.Recipients)

\* The effect of one loop iteration for recipient r on the state shared by
\* the operations that open no file: the options, the local document, the
\* requests issued, what the iteration did, the recipients appended to the
\* multierror.
Advance(r, o, m, reqs, act, errs) ==
    /\ opts' = o
    /\ doc' = m
    /\ log' = log \o reqs
    /\ action' = [action EXCEPT ![r] = act]
    /\ errFinal' = errFinal \o errs
    /\ processed' = processed \cup {r}
    /\ idx' = idx + 1
    /\ UNCHANGED <<op, pc, fileOpts, fileDoc, remote, ret, opens, closes, mm, call>>

\* An operation that returns before its loop (or from inside it).
ReturnEarly(name, o, fd, m, rem, value) ==
    /\ op' = name
    /\ pc' = "done"
    /\ opts' = o
    /\ fileDoc' = fd
    /\ doc' = m
    /\ remote' = rem
    /\ action' = [r \in DOMAIN o.Recipients |-> "none"]
    /\ ret' = value
    /\ UNCHANGED <<idx, fileOpts, log, processed, errFinal, opens, closes, mm, call>>

OptsFor(id, recs, sc) ==
    [NoOpts EXCEPT !.DocID = id, !.Recipients = recs,
                   !.Selector = sc.Selector, !.Values = sc.Values]

\* ---- SendDoc ----
StartSendDoc ==
    /\ pc = "idle"
    /\ \E recs \in RecipientLists, m \in LocalDocs, found \in BOOLEAN :
        LET o == OptsFor(DocID, recs, [Selector |-> NoSelector,
                                       Values |-> <<<<DocID>>>>])
            rem == [r \in DOMAIN recs |-> NoSnap("absent")]
        IN  IF found
            THEN Enter("SendDoc", o, NoFile, WithoutIDRev(m), rem)
            ELSE ReturnEarly("SendDoc", o, NoFile, NoDoc, rem, RetErr(<<>>))

SendDocStep ==
    /\ InLoop("SendDoc")
    /\ \E ok \in BOOLEAN :
        LET r == opts.Recipients[idx]
        IN  Advance(r, opts, doc, sendDocToRecipient(r, doc, "POST", ok).reqs,
                    "create", <<>>)

\* ---- UpdateDoc ----
\* One iteration of the loop of UpdateDoc.
UpdateDocIter(m, r, snap, ok) ==
    LET get == FetchReq(r, "/data", snap)
    IN  IF snap.status # "present"
        THEN [doc |-> m, reqs |-> <<get>>, action |-> "fetcherr"]
        ELSE IF ~ docHasChanges(m, snap.M)
        THEN [doc |-> m, reqs |-> <<get>>, action |-> "noop"]
        ELSE LET m2 == SetRev(m, snap.M["_rev"])
             IN  [doc |-> m2,
                  reqs |-> <<get>> \o sendDocToRecipient(r, m2, "PUT", ok).reqs,
                  action |-> "put"]

StartUpdateDoc ==
    /\ pc = "idle"
    /\ \E recs \in RecipientLists, m \in LocalDocs, found \in BOOLEAN :
        \E rem \in IF found THEN {f \in [DOMAIN recs -> UNION {DocSnaps(r) : r \in DOMAIN recs}] :
                                    \A r \in DOMAIN recs : f[r] \in DocSnaps(r)}
                   ELSE {[r \in DOMAIN recs |-> NoSnap("absent")]} :
          LET o == OptsFor(DocID, recs, [Selector |-> NoSelector,
                                         Values |-> <<<<DocID>>>>])
          IN  IF found
              THEN Enter("UpdateDoc", o, NoFile, m, rem)
              ELSE ReturnEarly("UpdateDoc", o, NoFile, NoDoc, rem,
                               RetErr(<<>>))

UpdateDocStep ==
    /\ InLoop("UpdateDoc")
    /\ LET r == opts.Recipients[idx]
       IN  \E ok \in BOOLEAN :
            \E it \in {UpdateDocIter(doc, r, remote[r], ok)} :
              Advance(r, opts, it.doc, it.reqs, it.action, <<>>)

\* ---- DeleteDoc ----
StartDeleteDoc ==
    /\ pc = "idle"
    /\ \E recs \in RecipientLists :
        \E rem \in {f \in [DOMAIN recs -> UNION {DocSnaps(r) : r \in DOMAIN recs}] :
                      \A r \in DOMAIN recs : f[r] \in DocSnaps(r)} :
          Enter("DeleteDoc",
                OptsFor(DocID, recs, [Selector |-> NoSelector,
                                      Values |-> <<<<DocID>>>>]),
                NoFile, NoDoc, rem)

DeleteDocStep ==
    /\ InLoop("DeleteDoc")
    /\ LET r == opts.Recipients[idx]
           snap == remote[r]
           get == FetchReq(r, "/data", snap)
       IN  IF snap.status # "present"
           THEN Advance(r, opts, doc, <<get>>, "fetcherr", <<r>>)
           ELSE \E ok \in BOOLEAN :
                  Advance(r, opts, doc,
                          <<get, Req(r, "DELETE", "/sharings/doc",
                                     <<snap.M["_rev"]>>, <<>>, NoBody, FALSE,
                                     ok)>>,
                          "delete", IF ok THEN <<>> ELSE <<r>>)

\* ---- SendDir ----
DirTargets == {DirID, RootDirID}

StartSendDir ==
    /\ pc = "idle"
    /\ \E recs \in RecipientLists, id \in DirTargets, sc \in Scopes(DirID),
          dd \in LocalDirs :
        LET o == OptsFor(id, recs, sc)
            rem == [r \in DOMAIN recs |-> NoSnap("absent")]
        IN  IF getParentDirID(o, dd.dirID).err
            THEN ReturnEarly("SendDir", o, dd, NoDoc, rem, RetErr(<<>>))
            ELSE Enter("SendDir", o, dd, NoDoc, rem)

SendDirStep ==
    /\ InLoop("SendDir")
    /\ \E ok \in BOOLEAN :
        LET r == opts.Recipients[idx]
            parentID == getParentDirID(opts, fileDoc.dirID).parentID
        IN  Advance(r, opts, doc,
                    <<Req(r, "POST", "/sharings/doc", <<>>, <<parentID>>,
                          [dir |-> fileDoc.name], FALSE, ok)>>,
                    "create", <<>>)

\* ---- PatchDir ----
StartPatchDir ==
    /\ pc = "idle"
    /\ \E recs \in RecipientLists, id \in DirTargets, sc \in Scopes(DirID),
          dd \in LocalDirs :
        \E rem \in [DOMAIN recs -> RevSnaps] :
          Enter("PatchDir", OptsFor(id, recs, sc), dd, NoDoc, rem)

\* A failed revision fetch makes PatchDir return that error from inside the
\* loop; a failed patch is appended to the multierror.
PatchDirStep ==
    /\ InLoop("PatchDir")
    /\ LET r == opts.Recipients[idx]
           snap == remote[r]
           get == FetchReq(r, "/files", snap)
           o1 == [opts EXCEPT !.DocRev = RevAt(r)]
       IN  IF snap.status # "present"
           THEN /\ log' = Append(log, get)
                /\ action' = [action EXCEPT ![r] = "fetcherr"]
                /\ processed' = processed \cup {r}
                /\ ret' = RetErr(<<r>>)
                /\ pc' = "done"
                /\ UNCHANGED <<op, idx, opts, fileOpts, fileDoc, doc, remote,
                               errFinal, opens, closes, mm, call>>
           ELSE \E ok \in BOOLEAN :
                 \E sp \in {sendPatchToRecipient(
                               generateDirOrFilePatch(fileDoc), o1, r,
                               fileDoc.dirID, ok)} :
                   Advance(r, o1, doc, <<get>> \o sp.reqs,
                           IF sp.reqs = <<>> THEN "invalid" ELSE "patch",
                           IF sp.err THEN <<r>> ELSE <<>>)

\* ---- DeleteDirOrFile ----
StartDeleteDirOrFile ==
    /\ pc = "idle"
    /\ \E recs \in RecipientLists, id \in {DirID, FileID}, sc \in Scopes(DirID) :
        \E rem \in [DOMAIN recs -> RevSnaps] :
          Enter("DeleteDirOrFile", OptsFor(id, recs, sc), NoFile, NoDoc, rem)

\* A DeleteDirOrFile iteration that forgets `opts.DocRev = rev`.
DeleteDirOrFileStep_StaleRev ==
    /\ InLoop("DeleteDirOrFile")
    /\ LET r == opts.Recipients[idx]
           snap == remote[r]
           get == FetchReq(r, "/files", snap)
       IN  IF snap.status # "present"
           THEN Advance(r, opts, doc, <<get>>, "fetcherr", <<r>>)
           ELSE \E ok \in BOOLEAN :
                  Advance(r, opts, doc,
                          <<get, Req(r, "DELETE", "/sharings/doc",
                                     <<opts.DocRev>>, <<>>, NoBody, FALSE, ok)>>,
                          "delete", IF ok THEN <<>> ELSE <<r>>)

DeleteDirOrFileStep ==
    /\ InLoop("DeleteDirOrFile")
    /\ LET r == opts.Recipients[idx]
           snap == remote[r]
           get == FetchReq(r, "/files", snap)
           o1 == [opts EXCEPT !.DocRev = RevAt(r)]
       IN  IF snap.status # "present"
           THEN Advance(r, opts, doc, <<get>>, "fetcherr", <<r>>)
           ELSE \E ok \in BOOLEAN :
                  Advance(r, o1, doc,
                          <<get, Req(r, "DELETE", "/sharings/doc",
                                     <<o1.DocRev>>, <<>>, NoBody, FALSE, ok)>>,
                          "delete", IF ok THEN <<>> ELSE <<r>>)

\* ---- RemoveDirOrFileFromSharing ----
StartRemoveDirOrFileFromSharing ==
    /\ pc = "idle"
    /\ \E recs \in RecipientLists, sc \in Scopes(FileID) :
        Enter("RemoveDirOrFileFromSharing", OptsFor(FileID, recs, sc),
              NoFile, NoDoc, [r \in DOMAIN recs |-> NoSnap("absent")])

RemoveDirOrFileFromSharingStep ==
    /\ InLoop("RemoveDirOrFileFromSharing")
    /\ \E ok \in BOOLEAN :
        LET r == opts.Recipients[idx]
        IN  Advance(r, opts, doc,
                    updateReferencesAtRecipient("DELETE",
                        getSharedReferences(opts), opts, r, ok).reqs,
                    "remove", <<>>)

\* What each operation returns once its loop is over: the multierror for
\* DeleteDoc and PatchDir, nil for the others.
ReturnValue(name, errs) ==
    IF name \in {"DeleteDoc", "PatchDir"} THEN RetMulti(errs) ELSE RetNil

LoopOps ==
    {"SendDoc", "UpdateDoc", "DeleteDoc", "SendDir", "PatchDir",
     "DeleteDirOrFile", "RemoveDirOrFileFromSharing"}

Return ==
    /\ pc = "loop"
    /\ op \in LoopOps
    /\ idx > Len(opts.Recipients)
    /\ ret' = ReturnValue(op, errFinal)
    /\ pc' = "done"
    /\ UNCHANGED <<op, idx, opts, fileOpts, fileDoc, doc, remote, log,
                   processed, action, errFinal, opens, closes, mm, call>>

Next ==
    \/ StartUpdateOrPatchFile
    \/ UpdateOrPatchFileStep
    \/ ReturnUpdateOrPatchFile
    \/ CallSendFile
    \/ StartSendDoc
    \/ SendDocStep
    \/ StartUpdateDoc
    \/ UpdateDocStep
    \/ StartDeleteDoc
    \/ DeleteDocStep
    \/ StartSendDir
    \/ SendDirStep
    \/ StartPatchDir
    \/ PatchDirStep
    \/ StartDeleteDirOrFile
    \/ DeleteDirOrFileStep
    \/ StartRemoveDirOrFileFromSharing
    \/ RemoveDirOrFileFromSharingStep
    \/ Return

Spec == Init /\ [][Next]_vars

\* ------------------------------------------------------------------------
\* Properties
\* ------------------------------------------------------------------------

Recips == Range(opts.Recipients)

\* The operation returned before its loop: the local object was not found,
\* the content could not be opened or the target is not shareable.
PreconditionFailed == ret = RetErr(<<>>)

\* Some request with this method and route was issued to recipient r.
HasReq(r, method, path) ==
    \E k \in DOMAIN log :
        log[k].to = r /\ log[k].method = method /\ log[k].path = path

\* A fetch or a push to r failed.  The "not found" answer to the snapshot
\* fetch of a file update is the absent condition, not a failure.
FailedAt(r) ==
    \E k \in DOMAIN log :
        /\ log[k].to = r
        /\ ~ log[k].ok
        /\ ~ (op = "UpdateOrPatchFile" /\ log[k].method = "GET"
              /\ remote[r].status = "absent")

\* Recipient r was processed and nothing failed for it.
SucceededAt(r) ==
    r \in processed /\ ~ FailedAt(r) /\ action[r] # "invalid"

\* C1: in every dispatcher operation that starts its fan-out, every recipient
\* of the list is processed, whatever fetches or pushes failed before it.
C1_EveryRecipientProcessed ==
    (pc = "done" /\ ~ PreconditionFailed) => processed = Recips

\* C2: the value an operation returns is nil when every recipient succeeded,
\* and otherwise an aggregate with an entry for each recipient whose fetch or
\* push failed and none for a recipient that succeeded.
C2_AggregatedError ==
    (pc = "done" /\ ~ PreconditionFailed) =>
        LET failed == {r \in Recips : FailedAt(r)}
            succeeded == {r \in Recips : SucceededAt(r)}
        IN  /\ (succeeded = Recips) => ret = RetNil
            /\ (failed # {}) =>
                 /\ ret.kind = "multi"
                 /\ failed \subseteq Range(ret.about)
                 /\ Range(ret.about) \cap succeeded = {}

\* The recipients of a file update whose snapshot fetch reported this status
\* and whose iteration ran.
Fetched(status) ==
    {r \in processed : op = "UpdateOrPatchFile" /\ remote[r].status = status}

NoPatchPutDelete(r) ==
    \A k \in DOMAIN log :
        log[k].to = r => log[k].method \notin {"PATCH", "PUT", "DELETE"}

RelevantIn(sc, refs) ==
    {refs[i] : i \in {j \in DOMAIN refs :
        /\ sc.Selector = SelectorReferencedBy
        /\ \E v \in DOMAIN sc.Values :
              Len(sc.Values[v]) = 2 /\ sc.Values[v][2] = refs[j].ID}}

RelevantSet(refs) == RelevantIn(opts, refs)

\* C4: in a file update, a recipient whose snapshot has the hash, the name
\* and the tag set of the local file and misses none of its relevant
\* references is classified NoOp and is sent nothing but the snapshot fetch.
C4_NoOpSendsNothing ==
    \A r \in Fetched("present") :
        ( /\ remote[r].md5 = fileDoc.md5
          /\ remote[r].name = fileDoc.name
          /\ Range(remote[r].tags) = Range(fileDoc.tags)
          /\ RelevantSet(fileDoc.refs) \subseteq RelevantSet(remote[r].refs) )
        => /\ action[r] = "noop"
           /\ \A k \in DOMAIN log : log[k].to = r => log[k].method = "GET"

\* C5: across one dispatch the local content is opened at most once.
C5_OpenedAtMostOnce == opens <= 1

C5_Witness ==
    /\ pc = "done"
    /\ op = "UpdateOrPatchFile"
    /\ opens = 1
    /\ \E r, q \in processed :
        /\ action[r] = "create"
        /\ action[q] = "put"
    /\ \E k \in DOMAIN log : log[k].method = "POST" /\ ~ log[k].ok

\* C6: a content stream opened during a dispatch has been closed exactly once
\* when the dispatch returns.
C6_ClosedExactlyOnce ==
    (pc = "done" /\ opens >= 1) => closes = 1

\* The number of relevant references, duplicates counted.
RelevantCount(refs) ==
    Cardinality({j \in DOMAIN refs : refs[j] \in RelevantSet(refs)})

\* The relevant local references the remote copy misses, as the reference
\* reconciler reports them: none unless the local copy has more relevant
\* references than the remote one.
MissingAt(r) ==
    IF RelevantCount(fileDoc.refs) > RelevantCount(remote[r].refs)
    THEN RelevantSet(fileDoc.refs) \ RelevantSet(remote[r].refs)
    ELSE {}

\* The first applicable action of the priority order for a recipient that
\* holds the file.
FirstApplicable(r) ==
    IF remote[r].md5 # fileDoc.md5 THEN "PUT"
    ELSE IF remote[r].name # fileDoc.name \/ remote[r].tags # fileDoc.tags
         THEN "PATCH"
    ELSE IF MissingAt(r) # {} THEN "REFS"
    ELSE "NONE"

\* The mutating requests sent to r from its own iteration of the file update.
Executed(r) ==
    {log[k].method : k \in {j \in DOMAIN log :
        /\ log[j].to = r
        /\ \/ log[j].method \in {"PUT", "PATCH"}
           \/ log[j].path = "/files/referenced_by"}}

DocFetched ==
    {r \in processed : op = "UpdateDoc" /\ remote[r].status = "present"}

\* A JSON body without its _id and _rev members.
Body(m) == [k \in DOMAIN m \ {"_id", "_rev"} |-> m[k]]

\* C9: in a document update, a recipient whose copy was fetched is sent a PUT
\* exactly when the local body differs from its body (_id and _rev left
\* out), and that PUT carries the recipient's own current _rev.
C9_DocReplaceIffBodyDiffers ==
    \A r \in DocFetched :
        /\ HasReq(r, "PUT", "/sharings/doc") <=> Body(doc) # Body(remote[r].M)
        /\ \A k \in DOMAIN log :
            (log[k].to = r /\ log[k].method = "PUT") =>
                log[k].body.doc["_rev"] = RevAt(r)

C9_Witness ==
    /\ pc = "done"
    /\ \E r, q \in DocFetched :
        /\ r < q
        /\ HasReq(r, "PUT", "/sharings/doc")
        /\ doc["_rev"] = RevAt(r)
        /\ Body(doc) = Body(remote[q].M)
        /\ ~ HasReq(q, "PUT", "/sharings/doc")

\* C10: in a document update, a recipient whose snapshot fetch reports the
\* document absent is sent a create (POST) of the document.
C10_DocCreateOnAbsent ==
    \A r \in processed :
        (op = "UpdateDoc" /\ remote[r].status = "absent") =>
            HasReq(r, "POST", "/sharings/doc")

\* ------------------------------------------------------------------------
\* Master-master propagation
\* ------------------------------------------------------------------------

InitMM ==
    /\ InitDispatcher
    /\ \E f \in MMFiles, sc \in MMScopes :
        mm = [MMIdle EXCEPT !.file = [n \in Nodes |-> f], !.scope = sc]
    /\ call = NoCall

\* The file as node n answers it to a snapshot fetch.
SnapOf(f) ==
    [status |-> "present", md5 |-> f.md5, name |-> f.name, tags |-> f.tags,
     refs |-> f.refs, M |-> NoDoc]

\* What a node does with a mutating request it receives: a PUT replaces the
\* content, a PATCH replaces name and tags, a reference POST adds the
\* references, a create installs the file.
ApplyAtRecipient(req, sender, f) ==
    IF req.method = "PUT" THEN [f EXCEPT !.md5 = sender.md5]
    ELSE IF req.method = "PATCH"
    THEN [f EXCEPT !.name = req.body.patch.name, !.tags = req.body.patch.tags]
    ELSE IF req.path = "/files/referenced_by"
    THEN [f EXCEPT !.refs = @ \o req.body.refs]
    ELSE sender

RECURSIVE ApplyAll(_, _, _)
ApplyAll(reqs, sender, f) ==
    IF reqs = <<>> THEN f
    ELSE ApplyAll(Tail(reqs), sender, ApplyAtRecipient(Head(reqs), sender, f))

\* The one-field changes a user can make to a file: new content, new name,
\* new tags, or one more reference.
LocalChanges(f) ==
    {[f EXCEPT !.md5 = h] : h \in Hashes \ {f.md5}} \cup
    {[f EXCEPT !.name = n] : n \in Names \ {f.name}} \cup
    {[f EXCEPT !.tags = t] : t \in TagLists \ {f.tags}} \cup
    {[f EXCEPT !.refs = Append(@, ref)] :
        ref \in {RefA, RefB, RefZ} \ Range(f.refs)}

\* A user changes the file at one node; the node gets an update event.
MMLocalChange ==
    /\ ~ mm.changed
    /\ \E n \in Nodes :
        \E f \in LocalChanges(mm.file[n]) :
          mm' = [mm EXCEPT !.file[n] = f, !.queue = <<n>>, !.changed = TRUE]
    /\ UNCHANGED <<op, pc, idx, opts, fileOpts, fileDoc, doc, remote, log,
                   processed, action, errFinal, ret, opens, closes, call>>

\* A node handles its update event: it runs UpdateOrPatchFile toward the
\* other node, which applies what it receives and, when it received a
\* mutating request, gets an update event of its own.
MMPropagate ==
    /\ mm.queue # <<>>
    /\ LET n == Head(mm.queue)
           y == Other(n)
       IN  \E it \in {UpdateOrPatchFileIter(OptsFor(FileID, <<1>>, mm.scope),
                          NoFileOpts, mm.file[n], 1, SnapOf(mm.file[y]),
                          TRUE, {1}, TRUE)} :
            \E muts \in {SelectSeq(it.reqs, LAMBDA q : q.method # "GET")} :
              mm' = [mm EXCEPT
                       !.file[y] = ApplyAll(muts, mm.file[n], @),
                       !.queue = Tail(@) \o
                                 (IF muts # <<>> THEN <<y>> ELSE <<>>),
                       !.sent = @ \/ muts # <<>>]
    /\ UNCHANGED <<op, pc, idx, opts, fileOpts, fileDoc, doc, remote, log,
                   processed, action, errFinal, ret, opens, closes, call>>

NextMM ==
    \/ MMLocalChange
    \/ MMPropagate

\* Queued update events are eventually handled by the job system.
SpecMM == InitMM /\ [][NextMM]_vars /\ WF_vars(MMPropagate)

\* The two replicas agree: same content, name and tags, and the same
\* references among those that concern the sharing.
MMAgree ==
    /\ mm.file["A"].md5 = mm.file["B"].md5
    /\ mm.file["A"].name = mm.file["B"].name
    /\ mm.file["A"].tags = mm.file["B"].tags
    /\ RelevantIn(mm.scope, mm.file["A"].refs)
         = RelevantIn(mm.scope, mm.file["B"].refs)

\* No update event is pending: no node will issue a request any more.
MMQuiet == mm.queue = <<>>

RefUniverse ==
    {[Type |-> "album", ID |-> "A"], [Type |-> "photo", ID |-> "A"],
     [Type |-> "album", ID |-> "B"], [Type |-> "album", ID |-> "C"]}

RefLists == UNION {[1..n -> RefUniverse] : n \in 0..MaxRefs}

\* opts.Values of a reference-based scope, cut at permissions.RefSep.
RefScopeValues ==
    {<<>>, <<<<"album", "A">>>>, <<<<"album", "A">>, <<"album", "B">>>>,
     <<<<"malformed">>, <<"album", "B">>, <<"a", "b", "c">>>>}

\* opts.Values of a plain listing scope: the accepted ids.
ListingValues ==
    {<<>>, <<<<DirID>>>>, <<<<FileID>>, <<DirID>>>>, <<<<RootDirID>>>>}

HelperCalls ==
    {[NoCall EXCEPT !.fn = "getParentDirID",
                    !.o = [NoOpts EXCEPT !.DocID = id, !.Selector = sel,
                                         !.Values = vs],
                    !.dirID = parent] :
        id \in {RootDirID, DirID, FileID},
        sel \in {NoSelector, SelectorReferencedBy},
        vs \in ListingValues \cup RefScopeValues,
        parent \in {ParentDirID, RootDirID}}
    \cup
    {[NoCall EXCEPT !.fn = "extractRelevantReferences",
                    !.o = [NoOpts EXCEPT !.Selector = sel, !.Values = vs],
                    !.refs = refs] :
        sel \in {NoSelector, SelectorReferencedBy}, vs \in RefScopeValues,
        refs \in RefLists}
    \cup
    {[NoCall EXCEPT !.fn = "findNewRefs",
                    !.o = [NoOpts EXCEPT !.Selector = sel, !.Values = vs],
                    !.refs = refs, !.remoteRefs = remoteRefs] :
        sel \in {NoSelector, SelectorReferencedBy}, vs \in RefScopeValues,
        refs \in RefLists, remoteRefs \in RefLists}

InitHelpers ==
    /\ InitDispatcher
    /\ mm = MMIdle
    /\ call \in HelperCalls

Returned(fn, out) ==
    /\ call.fn = fn
    /\ ~ call.done
    /\ call' = [call EXCEPT !.done = TRUE, !.out = out]
    /\ UNCHANGED <<op, pc, idx, opts, fileOpts, fileDoc, doc, remote, log,
                   processed, action, errFinal, ret, opens, closes, mm>>

CallGetParentDirID ==
    Returned("getParentDirID", getParentDirID(call.o, call.dirID))

CallExtractRelevantReferences ==
    Returned("extractRelevantReferences",
             extractRelevantReferences(call.o, call.refs))

CallFindNewRefs ==
    Returned("findNewRefs",
             findNewRefs(call.o, [refs |-> call.refs],
                         [refs |-> call.remoteRefs]))

NextHelpers ==
    \/ CallGetParentDirID
    \/ CallExtractRelevantReferences
    \/ CallFindNewRefs

SpecHelpers == InitHelpers /\ [][NextHelpers]_vars

\* ------------------------------------------------------------------------
\* Properties of the deletions, of the helpers and of the content stream
\* ------------------------------------------------------------------------

DeleteOps == {"DeleteDoc", "DeleteDirOrFile"}

\* C11: in DeleteDoc and DeleteDirOrFile a DELETE is sent to a recipient
\* exactly when its revision fetch succeeded, after that fetch and with the
\* revision fetched from it; when the fetch fails no DELETE is sent and an
\* error is recorded for the recipient.
C11_DeleteWithFetchedRevision ==
    op \in DeleteOps =>
        /\ \A k \in DOMAIN log :
            log[k].method = "DELETE" =>
                /\ remote[log[k].to].status = "present"
                /\ log[k].revs = <<RevAt(log[k].to)>>
                /\ \E j \in 1..(k - 1) :
                    /\ log[j].to = log[k].to
                    /\ log[j].method = "GET"
                    /\ log[j].ok
        /\ \A r \in processed :
            IF remote[r].status = "present"
            THEN HasReq(r, "DELETE", "/sharings/doc")
            ELSE /\ ~ HasReq(r, "DELETE", "/sharings/doc")
                 /\ r \in Range(errFinal)

C11_Witness ==
    /\ pc = "done"
    /\ op = "DeleteDirOrFile"
    /\ \E r, q \in processed :
        /\ r < q
        /\ remote[r].status = "present"
        /\ remote[q].status = "present"
        /\ HasReq(q, "DELETE", "/sharings/doc")
    /\ \E r \in processed : remote[r].status = "present"

\* C12: getParentDirID gives, under a plain listing scope, an error for the
\* root container, the shared-with-me container for an accepted id and the
\* local parent otherwise; under a reference-based scope, the shared-with-me
\* container.
C12_GetParentDirID ==
    (call.fn = "getParentDirID" /\ call.done) =>
        IF call.o.Selector = NoSelector
        THEN IF call.o.DocID = RootDirID
             THEN call.out.err
             ELSE IF \E i \in DOMAIN call.o.Values :
                        call.o.Values[i] = <<call.o.DocID>>
                  THEN ~ call.out.err /\ call.out.parentID = SharedWithMeDirID
                  ELSE ~ call.out.err /\ call.out.parentID = call.dirID
        ELSE ~ call.out.err /\ call.out.parentID = SharedWithMeDirID

C12_Witness ==
    /\ call.fn = "getParentDirID"
    /\ call.done
    /\ call.o.Selector = NoSelector
    /\ call.o.DocID = FileID
    /\ call.o.Values = <<<<DirID>>>>
    /\ call.out.parentID = ParentDirID

\* The target of the operation cannot be shared: the root container under a
\* plain listing scope.
InvalidTarget == opts.Selector = NoSelector /\ opts.DocID = RootDirID

\* C13: when the target is invalid the operation returns the error at once
\* and sends no request, fetch or push, to any recipient.
C13_InvalidTargetSendsNothing ==
    (op \in {"SendDir", "PatchDir", "UpdateOrPatchFile"} /\ InvalidTarget) =>
        /\ log = <<>>
        /\ (pc = "done" /\ Recips # {}) => ret.kind = "err"

\* The local content could not be opened at some point of the invocation.
OpenFailed ==
    \/ op = "SendFile" /\ PreconditionFailed
    \/ \E r \in DOMAIN action : action[r] = "openerr"

\* C14: when the local content cannot be opened the whole operation fails
\* before any recipient is contacted: it has returned an error, no request
\* was sent, and so no later recipient led to another attempt.
C14_OpenFailureIsFatal ==
    OpenFailed =>
        /\ pc = "done"
        /\ ret.kind = "err"
        /\ log = <<>>

\* The elements of s at the indices idxs, in the order of s.
Sub(s, idxs) ==
    [k \in 1..Cardinality(idxs) |->
        s[CHOOSE i \in idxs : Cardinality({j \in idxs : j <= i}) = k]]

\* The ids of the references of a reference-based scope.
ScopeIDs(o) ==
    IF o.Selector = SelectorReferencedBy
    THEN {o.Values[v][2] : v \in {w \in DOMAIN o.Values : Len(o.Values[w]) = 2}}
    ELSE {}

\* The references of refs whose id is the id of a scope reference, in the
\* order of refs and with their duplicates.
Relevant(o, refs) ==
    Sub(refs, {i \in DOMAIN refs : refs[i].ID \in ScopeIDs(o)})

NoContentNeeded ==
    \A r \in processed :
        \/ remote[r].status = "error"
        \/ remote[r].status = "present" /\ remote[r].md5 = fileDoc.md5

\* C17: in a file update where no recipient needs the content, the content
\* is never opened and the release at the end closes nothing.
C17_NeverOpenedWhenNotNeeded ==
    (op = "UpdateOrPatchFile" /\ NoContentNeeded) =>
        /\ opens = 0
        /\ closes = 0
        /\ ~ fileOpts.set

C17_Witness ==
    /\ op = "UpdateOrPatchFile"
    /\ pc = "done"
    /\ NoContentNeeded
    /\ \E r, q \in processed :
        /\ action[r] = "patch"
        /\ action[q] = "fetcherr"

\* The pushes of the file content.
ContentPushes == {k \in DOMAIN log : "content" \in DOMAIN log[k].body}

\* C18: no content push (POST or PUT) is made with a content stream that was
\* already closed.
C18_NoPushAfterClose ==
    \A k \in ContentPushes : ~ log[k].closed

\* C19: every revision in the query of a request was fetched from the
\* recipient of that request: none comes from another recipient, a create
\* carries none, and a metadata PATCH carries exactly the current revision
\* of its recipient.
C19_RevisionOfTheRecipient ==
    \A k \in DOMAIN log :
        /\ Range(log[k].revs) \subseteq {RevAt(log[k].to)}
        /\ log[k].method = "POST" => log[k].revs = <<>>
        /\ log[k].method = "PATCH" => log[k].revs = <<RevAt(log[k].to)>>

\* C20: within one invocation a recipient is sent at most one snapshot fetch
\* and at most one mutating request, and nothing once its own iteration is
\* over.
C20_AtMostOnePerRecipient ==
    \A r \in Recips :
        /\ Cardinality({k \in DOMAIN log :
                          log[k].to = r /\ log[k].method = "GET"}) <= 1
        /\ Cardinality({k \in DOMAIN log :
                          log[k].to = r /\ log[k].method # "GET"}) <= 1

\* What a request asks of its recipient: everything but its outcome.
Sig(req) ==
    [method |-> req.method, path |-> req.path, revs |-> req.revs,
     dirIDs |-> req.dirIDs, body |-> req.body]

\* The requests sent to recipient r, in the order they were sent.
SentTo(r) ==
    LET mine == Sub(log, {k \in DOMAIN log : log[k].to = r})
    IN  [k \in DOMAIN mine |-> Sig(mine[k])]

\* The requests a file update sends to recipient r when r is the only
\* recipient, for the same local file, scope and snapshot of r.
AloneRequests(r) ==
    LET o == [opts EXCEPT !.Recipients = <<r>>, !.DocRev = NoRev]
        it == UpdateOrPatchFileIter(o, NoFileOpts, fileDoc, r, remote[r],
                                    TRUE, {r}, TRUE)
    IN  [k \in DOMAIN it.reqs |-> Sig(it.reqs[k])]

\* C21: recipients are processed independently: in a file update whose
\* content could be opened, each recipient is sent the requests (methods,
\* revisions, query values, body) it is sent when it is the only recipient,
\* whatever the snapshots of the other recipients.
C21_RecipientsIndependent ==
    (op = "UpdateOrPatchFile" /\ pc = "done" /\ ~ OpenFailed) =>
        \A r \in Recips : SentTo(r) = AloneRequests(r)

\* The creates of a file or of a directory.
Creates ==
    {k \in DOMAIN log :
        /\ log[k].method = "POST"
        /\ \/ "content" \in DOMAIN log[k].body
           \/ "dir" \in DOMAIN log[k].body}

\* C22: a create sent by SendFile or SendDir carries one dir_id, the one
\* getParentDirID gives for the scope, the id of the object, its local
\* parent and the accepted ids.
C22_CreateCarriesResolvedPlacement ==
    op \in {"SendFile", "SendDir"} =>
        \A k \in Creates :
            log[k].dirIDs = <<getParentDirID(opts, fileDoc.dirID).parentID>>

\* C23: every content push transmits the whole content of the file, not
\* what an earlier push left of the stream.
C23_EveryPushSendsWholeContent ==
    \A k \in ContentPushes : log[k].body.content = "whole"

====
